---- MODULE Spec2Model ----
(***************************************************************************)
(* Storage layer of the career app: AzureStorageManager in                 *)
(* storage_utils.py.  One manager object, two backends (remote blob        *)
(* containers, local directories), four operations and the constructor,   *)
(* and the download_pdf handler of main.py that calls them.                *)
(* Spec: every call is one atomic action.  SpecInit: the constructor.      *)
(* SpecConc: two calls in flight, cut at their backend calls.              *)
(* A remote call either takes effect and returns, or raises without        *)
(* effect.                                                                 *)
(***************************************************************************)
EXTENDS Integers, Sequences, FiniteSets, TLC

\* ---------------------------------------------------------------- bounds
MaxContent == 1        \* byte contents are 0..MaxContent, 0 is b""
MaxCalls == 3          \* calls made on the manager after construction

\* ------------------------------------------------------------- constants
KnownBuckets == {"uploads", "generated"}
\* "static" is a directory main.py creates beside the two buckets
Folders == KnownBuckets \cup {"static"}
\* caller-supplied file names
Names == {"cv.pdf"}
Contents == 0..MaxContent
None == -1
Net == {"ok", "down"}
\* outcome of a local read or removal of an existing file: done, or an
\* OSError other than FileNotFoundError (permission denied, is a directory)
IO == {"ok", "denied"}
AccountValues == {"unset", "acct"}
ConnValues == {"unset", "conn"}
MiValues == {"unset", "false", "true", "True"}

VARIABLES pc, use_azure, blob_service_client, storage_account_name,
          storage_connection_string, use_managed_identity,
          localDirs, localFiles, containers, blobs,
          last, written, initExc, calls, resp, procs, start

vars == <<pc, use_azure, blob_service_client, storage_account_name,
          storage_connection_string, use_managed_identity,
          localDirs, localFiles, containers, blobs,
          last, written, initExc, calls, resp, procs, start>>

\* ------------------------------------------------------------- locators
NoLoc == [kind |-> "none", folder |-> "", name |-> ""]
\* blob_client.url
Url(f, n) == [kind |-> "url", folder |-> f, name |-> n]
\* os.path.join(folder, filename)
Path(f, n) == [kind |-> "path", folder |-> f, name |-> n]

\* ------------------------------------------------------ call records
\* last: the most recent call, its arguments and what it returned;
\*   over: the content of the save_file that returned right before this
\*         save_file on the same (folder, filename), else None
\*   prevFailed: the remote attempt of the call before this one raised
\*   io: the outcome the local file system had for the call
NoOp == [op |-> "none", f |-> "", n |-> "", b |-> None, io |-> "ok",
         raised |-> FALSE,
         out |-> None, ok |-> FALSE, loc |-> NoLoc, remote |-> 0,
         local |-> 0, rraised |-> FALSE, over |-> None, prevFailed |-> FALSE]

\* ----------------------------------------------------------- environment
\* os.getenv(...) with a missing variable is None, which is falsy
Truthy(v) == v # "unset"

Lower(s) == IF s = "True" THEN "true" ELSE s

\* os.getenv("USE_MANAGED_IDENTITY", "false").lower() == "true"
ReadManagedIdentity(v) == Lower(IF v = "unset" THEN "false" ELSE v) = "true"

\* ------------------------------------------------------------ constructor
\* variant: the connection string is tried before managed identity
client_kind_conn_first(mi, acct, conn) ==
    IF Truthy(conn) THEN "conn"
    ELSE IF mi /\ Truthy(acct) THEN "mi"
    ELSE "none"

\* the branch of lines 39-54: which client the constructor builds
client_kind(mi, acct, conn) ==
    IF mi /\ Truthy(acct) THEN "mi"
    ELSE IF Truthy(conn) THEN "conn"
    ELSE "none"

\* failing: the containers whose exists()/create_container() call raises;
\* the exception is caught inside the loop and the loop goes on
ensure_containers(conts, failing) == conts \cup (KnownBuckets \ failing)

\* os.makedirs(..., exist_ok=True) for both folders
ensure_local_directories(dirs) == dirs \cup KnownBuckets

\* ctorRaises: DefaultAzureCredential()/BlobServiceClient(...) raises
initialize_azure_storage(mi, acct, conn, dirs, conts, ctorRaises, failing) ==
    LET kind == client_kind(mi, acct, conn) IN
    IF kind = "none"
    THEN [use_azure |-> FALSE, client |-> "none",
          dirs |-> ensure_local_directories(dirs), conts |-> conts,
          exc |-> "none"]
    ELSE IF ctorRaises
    THEN [use_azure |-> FALSE, client |-> "none",
          dirs |-> ensure_local_directories(dirs), conts |-> conts,
          exc |-> "client"]
    ELSE [use_azure |-> TRUE, client |-> kind, dirs |-> dirs,
          conts |-> ensure_containers(conts, failing),
          exc |-> IF failing # {} THEN "containers" ELSE "none"]

init(mi, acct, conn, dirs, conts, ctorRaises, failing) ==
    IF Truthy(acct) \/ Truthy(conn)
    THEN initialize_azure_storage(mi, acct, conn, dirs, conts, ctorRaises, failing)
    ELSE [use_azure |-> FALSE, client |-> "none",
          dirs |-> ensure_local_directories(dirs), conts |-> conts,
          exc |-> "none"]

\* ---------------------------------------------------------- remote calls
\* Each yields [blobs, raised, out]; a call that raises changes nothing.
\* variant: the container name is fixed instead of taken from folder
upload_blob_fixed_container(blbs, conts, b, n, f, net) ==
    IF net = "down" \/ f \notin conts
    THEN [blobs |-> blbs, raised |-> TRUE, out |-> None]
    ELSE [blobs |-> [blbs EXCEPT ![<<"uploads", n>>] = b], raised |-> FALSE,
          out |-> None]

upload_blob(blbs, conts, b, n, f, net) ==
    IF net = "down" \/ f \notin conts
    THEN [blobs |-> blbs, raised |-> TRUE, out |-> None]
    ELSE [blobs |-> [blbs EXCEPT ![<<f, n>>] = b], raised |-> FALSE, out |-> None]

download_blob(blbs, conts, n, f, net) ==
    IF net = "down" \/ f \notin conts \/ blbs[<<f, n>>] = None
    THEN [blobs |-> blbs, raised |-> TRUE, out |-> None]
    ELSE [blobs |-> blbs, raised |-> FALSE, out |-> blbs[<<f, n>>]]

delete_blob(blbs, conts, n, f, net) ==
    IF net = "down" \/ f \notin conts \/ blbs[<<f, n>>] = None
    THEN [blobs |-> blbs, raised |-> TRUE, out |-> None]
    ELSE [blobs |-> [blbs EXCEPT ![<<f, n>>] = None], raised |-> FALSE, out |-> None]

\* ----------------------------------------------------------- local calls
\* open(path, 'wb') raises FileNotFoundError when the directory is missing
save_local(files, dirs, b, n, f) ==
    IF f \notin dirs
    THEN [files |-> files, raised |-> TRUE, loc |-> NoLoc]
    ELSE [files |-> [files EXCEPT ![<<f, n>>] = b], raised |-> FALSE,
          loc |-> Path(f, n)]

\* FileNotFoundError is caught and None returned; any other error of
\* open()/read() is not caught
get_local(files, n, f, io) ==
    IF files[<<f, n>>] = None THEN [out |-> None, raised |-> FALSE]
    ELSE IF io = "denied" THEN [out |-> None, raised |-> TRUE]
    ELSE [out |-> files[<<f, n>>], raised |-> FALSE]

\* os.remove(path) raises when the file is missing or cannot be removed
remove_local(files, n, f, io) ==
    IF files[<<f, n>>] = None \/ io = "denied"
    THEN [files |-> files, raised |-> TRUE]
    ELSE [files |-> [files EXCEPT ![<<f, n>>] = None], raised |-> FALSE]

\* ------------------------------------------------------------ operations
\* Each yields the effect of one call on the manager and both backends:
\*   use_azure, files, blobs: the state after the call
\*   raised: the call raised to its caller;  out: bytes or None (get_file)
\*   ok: the boolean delete_file returns;  loc: the locator returned
\*   remote, local: attempts made on each backend
\*   rraised: the remote attempt raised
\* variant: a failed upload is tried a second time before the local write
save_file_retry(ua, files, dirs, blbs, conts, b, n, f, net) ==
    LET up == upload_blob(blbs, conts, b, n, f, net)
        sl == save_local(files, dirs, b, n, f)
    IN  IF ua /\ ~up.raised
        THEN [use_azure |-> ua, files |-> files, blobs |-> up.blobs,
              raised |-> FALSE, out |-> None, ok |-> FALSE,
              loc |-> Url(f, n), remote |-> 1, local |-> 0, rraised |-> FALSE]
        ELSE [use_azure |-> ua, files |-> sl.files, blobs |-> blbs,
              raised |-> sl.raised, out |-> None, ok |-> FALSE,
              loc |-> sl.loc, remote |-> IF ua THEN 2 ELSE 0, local |-> 1,
              rraised |-> ua]

\* variant: a failed upload demotes the manager to local mode
save_file_demote(ua, files, dirs, blbs, conts, b, n, f, net) ==
    LET up == upload_blob(blbs, conts, b, n, f, net)
        sl == save_local(files, dirs, b, n, f)
    IN  IF ua /\ ~up.raised
        THEN [use_azure |-> ua, files |-> files, blobs |-> up.blobs,
              raised |-> FALSE, out |-> None, ok |-> FALSE,
              loc |-> Url(f, n), remote |-> 1, local |-> 0, rraised |-> FALSE]
        ELSE [use_azure |-> FALSE, files |-> sl.files, blobs |-> blbs,
              raised |-> sl.raised, out |-> None, ok |-> FALSE,
              loc |-> sl.loc, remote |-> IF ua THEN 1 ELSE 0, local |-> 1,
              rraised |-> ua]

save_file(ua, files, dirs, blbs, conts, b, n, f, net) ==
    LET up == upload_blob(blbs, conts, b, n, f, net)
        sl == save_local(files, dirs, b, n, f)
    IN  IF ua /\ ~up.raised
        THEN [use_azure |-> ua, files |-> files, blobs |-> up.blobs,
              raised |-> FALSE, out |-> None, ok |-> FALSE,
              loc |-> Url(f, n), remote |-> 1, local |-> 0, rraised |-> FALSE]
        ELSE [use_azure |-> ua, files |-> sl.files, blobs |-> blbs,
              raised |-> sl.raised, out |-> None, ok |-> FALSE,
              loc |-> sl.loc, remote |-> IF ua THEN 1 ELSE 0, local |-> 1,
              rraised |-> ua]

\* variant: a failed download is raised to the caller, no local read
get_file_no_fallback(ua, files, dirs, blbs, conts, n, f, net, io) ==
    LET dl == download_blob(blbs, conts, n, f, net)
        gl == get_local(files, n, f, io)
    IN  IF ua
        THEN [use_azure |-> ua, files |-> files, blobs |-> blbs,
              raised |-> dl.raised, out |-> dl.out, ok |-> FALSE,
              loc |-> NoLoc, remote |-> 1, local |-> 0, rraised |-> dl.raised]
        ELSE [use_azure |-> ua, files |-> files, blobs |-> blbs,
              raised |-> gl.raised, out |-> gl.out, ok |-> FALSE,
              loc |-> NoLoc, remote |-> 0, local |-> 1, rraised |-> FALSE]

get_file(ua, files, dirs, blbs, conts, n, f, net, io) ==
    LET dl == download_blob(blbs, conts, n, f, net)
        gl == get_local(files, n, f, io)
    IN  IF ua /\ ~dl.raised
        THEN [use_azure |-> ua, files |-> files, blobs |-> blbs,
              raised |-> FALSE, out |-> dl.out, ok |-> FALSE,
              loc |-> NoLoc, remote |-> 1, local |-> 0, rraised |-> FALSE]
        ELSE [use_azure |-> ua, files |-> files, blobs |-> blbs,
              raised |-> gl.raised, out |-> gl.out, ok |-> FALSE,
              loc |-> NoLoc, remote |-> IF ua THEN 1 ELSE 0, local |-> 1,
              rraised |-> ua]

\* variant: the local path is returned in both modes
get_file_path_always_local(ua, files, dirs, blbs, conts, n, f) ==
    [use_azure |-> ua, files |-> files, blobs |-> blbs,
     raised |-> FALSE, out |-> None, ok |-> FALSE,
     loc |-> Path(f, n), remote |-> 0, local |-> 0, rraised |-> FALSE]

get_file_path(ua, files, dirs, blbs, conts, n, f) ==
    [use_azure |-> ua, files |-> files, blobs |-> blbs,
     raised |-> FALSE, out |-> None, ok |-> FALSE,
     loc |-> IF ua THEN Url(f, n) ELSE Path(f, n), remote |-> 0, local |-> 0,
     rraised |-> FALSE]

\* variant: the local removal catches FileNotFoundError only
delete_file_not_found_only(ua, files, dirs, blbs, conts, n, f, net, io) ==
    LET del == delete_blob(blbs, conts, n, f, net)
        rm == remove_local(files, n, f, io)
    IN  IF ua
        THEN [use_azure |-> ua, files |-> files, blobs |-> del.blobs,
              raised |-> FALSE, out |-> None, ok |-> ~del.raised,
              loc |-> NoLoc, remote |-> 1, local |-> 0,
              rraised |-> del.raised]
        ELSE [use_azure |-> ua, files |-> rm.files, blobs |-> blbs,
              raised |-> rm.raised /\ files[<<f, n>>] # None,
              out |-> None, ok |-> ~rm.raised,
              loc |-> NoLoc, remote |-> 0, local |-> 1, rraised |-> FALSE]

\* variant: a failed remote deletion falls back to removing the local file
delete_file_local_fallback(ua, files, dirs, blbs, conts, n, f, net, io) ==
    LET del == delete_blob(blbs, conts, n, f, net)
        rm == remove_local(files, n, f, io)
    IN  IF ua /\ ~del.raised
        THEN [use_azure |-> ua, files |-> files, blobs |-> del.blobs,
              raised |-> FALSE, out |-> None, ok |-> TRUE,
              loc |-> NoLoc, remote |-> 1, local |-> 0, rraised |-> FALSE]
        ELSE [use_azure |-> ua, files |-> rm.files, blobs |-> blbs,
              raised |-> FALSE, out |-> None, ok |-> ~rm.raised,
              loc |-> NoLoc, remote |-> IF ua THEN 1 ELSE 0, local |-> 1,
              rraised |-> ua]

delete_file(ua, files, dirs, blbs, conts, n, f, net, io) ==
    LET del == delete_blob(blbs, conts, n, f, net)
        rm == remove_local(files, n, f, io)
    IN  IF ua
        THEN [use_azure |-> ua, files |-> files, blobs |-> del.blobs,
              raised |-> FALSE, out |-> None, ok |-> ~del.raised,
              loc |-> NoLoc, remote |-> 1, local |-> 0,
              rraised |-> del.raised]
        ELSE [use_azure |-> ua, files |-> rm.files, blobs |-> blbs,
              raised |-> FALSE, out |-> None, ok |-> ~rm.raised,
              loc |-> NoLoc, remote |-> 0, local |-> 1, rraised |-> FALSE]

\* ------------------------------------------------------------ download_pdf
\* the HTTP response of download_pdf; NoResp when the step is not a request
\*   kind: "json" (JSONResponse), "file" (FileResponse), "error" (500)
\*   checked: the backend whose bytes the content check read
NoResp == [status |-> 0, kind |-> "none", download_url |-> NoLoc,
           checked |-> "none"]

\* the bytes pisa renders: never empty
PdfContents == Contents \ {0}

\* `if pdf_content:` is false for None and for b""
NonEmpty(c) == c # None /\ c # 0

\* create_pdf_from_html then download_pdf: sv is the save_file of the PDF,
\* g the get_file of the content check on the state the save left
download_pdf(ua, files, dirs, blbs, conts, b, n, netS, netG, io) ==
    LET sv == save_file(ua, files, dirs, blbs, conts, b, n, "generated", netS)
        g == get_file(sv.use_azure, sv.files, dirs, sv.blobs, conts, n,
                      "generated", netG, io)
        err == [status |-> 500, kind |-> "error", download_url |-> NoLoc,
                checked |-> "none"]
    IN  IF sv.raised
        THEN [sv |-> sv, got |-> FALSE, g |-> g, resp |-> err]
        ELSE IF ~sv.use_azure
        THEN [sv |-> sv, got |-> FALSE, g |-> g,
              resp |-> [status |-> 200, kind |-> "file",
                        download_url |-> sv.loc, checked |-> "none"]]
        ELSE IF ~g.raised /\ NonEmpty(g.out)
        THEN [sv |-> sv, got |-> TRUE, g |-> g,
              resp |-> [status |-> 200, kind |-> "json",
                        download_url |-> sv.loc,
                        checked |-> IF g.local = 1 THEN "local" ELSE "remote"]]
        ELSE [sv |-> sv, got |-> TRUE, g |-> g, resp |-> err]

\* ----------------------------------------------------------------- state
Pairs == Folders \X Names

\* Before the module-level singleton is built: the process environment is
\* not read yet; directories and containers are whatever earlier runs left.
InitStart ==
    /\ pc = "start"
    /\ use_azure = FALSE
    /\ blob_service_client = "none"
    /\ storage_account_name = "unset"
    /\ storage_connection_string = "unset"
    /\ use_managed_identity = FALSE
    /\ localDirs \in {{"static"} \cup d : d \in SUBSET KnownBuckets}
    /\ localFiles = [p \in Pairs |-> None]
    /\ containers \in SUBSET KnownBuckets
    /\ blobs = [p \in Pairs |-> None]
    /\ last = NoOp
    /\ written = {}
    /\ initExc = "none"
    /\ calls = 0
    /\ resp = NoResp
    /\ procs = <<>>
    /\ start = <<>>

\* After construction, for the operations: the manager as init() leaves it
\* with no credentials (local mode) or with a connection string whose client
\* is built (remote mode), on a fresh storage account, for every set of
\* directories an earlier run left and every outcome of the container setup.
Init ==
    /\ pc = "ready"
    /\ \E conn \in ConnValues, dirs0 \in SUBSET KnownBuckets,
          failing \in SUBSET KnownBuckets :
         LET r == init(FALSE, "unset", conn, {"static"} \cup dirs0, {},
                       FALSE, failing)
         IN  /\ storage_account_name = "unset"
             /\ storage_connection_string = conn
             /\ use_managed_identity = FALSE
             /\ use_azure = r.use_azure
             /\ blob_service_client = r.client
             /\ localDirs = r.dirs
             /\ containers = r.conts
             /\ initExc = r.exc
    /\ localFiles = [p \in Pairs |-> None]
    /\ blobs = [p \in Pairs |-> None]
    /\ last = NoOp
    /\ written = {}
    /\ calls = 0
    /\ resp = NoResp
    /\ procs = <<>>
    /\ start = <<>>

\* AzureStorageManager(): the module-level singleton is built once
Construct ==
    /\ pc = "start"
    /\ \E acct \in AccountValues, conn \in ConnValues, miv \in MiValues,
          ctorRaises \in BOOLEAN, failing \in SUBSET KnownBuckets :
         LET mi == ReadManagedIdentity(miv)
             r == init(mi, acct, conn, localDirs, containers, ctorRaises, failing)
         IN  /\ storage_account_name' = acct
             /\ storage_connection_string' = conn
             /\ use_managed_identity' = mi
             /\ use_azure' = r.use_azure
             /\ blob_service_client' = r.client
             /\ localDirs' = r.dirs
             /\ containers' = r.conts
             /\ initExc' = r.exc
    /\ pc' = "ready"
    /\ UNCHANGED <<localFiles, blobs, last, written, calls, resp, procs, start>>

\* the manager's state after a call with effect e, and the record of the call
Apply(e, name, f, n, b, io) ==
    /\ use_azure' = e.use_azure
    /\ localFiles' = e.files
    /\ blobs' = e.blobs
    /\ last' = [op |-> name, f |-> f, n |-> n, b |-> b, io |-> io,
                raised |-> e.raised,
                out |-> e.out, ok |-> e.ok, loc |-> e.loc,
                remote |-> e.remote, local |-> e.local, rraised |-> e.rraised,
                over |-> IF name = "save" /\ last.op = "save" /\ ~last.raised
                            /\ last.f = f /\ last.n = n
                         THEN last.b ELSE None,
                prevFailed |-> last.rraised]
    /\ calls' = calls + 1
    /\ resp' = NoResp
    /\ written' = IF name = "save" /\ ~e.raised THEN written \cup {<<f, n>>}
                  ELSE written
    /\ UNCHANGED <<pc, blob_service_client, storage_account_name,
                   storage_connection_string, use_managed_identity,
                   localDirs, containers, initExc, procs, start>>

SaveFile ==
    /\ pc = "ready"
    /\ calls < MaxCalls
    /\ \E f \in Folders, n \in Names, b \in Contents, net \in Net :
         Apply(save_file(use_azure, localFiles, localDirs, blobs, containers,
                         b, n, f, net), "save", f, n, b, "ok")

GetFile ==
    /\ pc = "ready"
    /\ calls < MaxCalls
    /\ \E f \in Folders, n \in Names, net \in Net, io \in IO :
         Apply(get_file(use_azure, localFiles, localDirs, blobs, containers,
                        n, f, net, io), "get", f, n, None, io)

GetFilePath ==
    /\ pc = "ready"
    /\ calls < MaxCalls
    /\ \E f \in Folders, n \in Names :
         Apply(get_file_path(use_azure, localFiles, localDirs, blobs,
                             containers, n, f), "path", f, n, None, "ok")

DeleteFile ==
    /\ pc = "ready"
    /\ calls < MaxCalls
    /\ \E f \in Folders, n \in Names, net \in Net, io \in IO :
         Apply(delete_file(use_azure, localFiles, localDirs, blobs, containers,
                           n, f, net, io), "delete", f, n, None, io)

\* POST /api/download-pdf: one save_file and, in remote mode, one get_file
DownloadPdf ==
    /\ pc = "ready"
    /\ calls + 2 <= MaxCalls
    /\ \E n \in Names, b \in PdfContents, netS \in Net, netG \in Net,
          io \in IO :
         LET d == download_pdf(use_azure, localFiles, localDirs, blobs,
                               containers, b, n, netS, netG, io)
             e == IF d.got THEN d.g ELSE d.sv
         IN  /\ use_azure' = e.use_azure
             /\ localFiles' = e.files
             /\ blobs' = e.blobs
             /\ last' = [op |-> IF d.got THEN "get" ELSE "save",
                         f |-> "generated", n |-> n,
                         b |-> IF d.got THEN None ELSE b,
                         io |-> IF d.got THEN io ELSE "ok",
                         raised |-> e.raised, out |-> e.out, ok |-> e.ok,
                         loc |-> e.loc, remote |-> e.remote,
                         local |-> e.local, rraised |-> e.rraised,
                         over |-> IF ~d.got /\ last.op = "save"
                                     /\ ~last.raised /\ last.f = "generated"
                                     /\ last.n = n
                                  THEN last.b ELSE None,
                         prevFailed |-> IF d.got THEN d.sv.rraised
                                        ELSE last.rraised]
             /\ calls' = calls + (IF d.got THEN 2 ELSE 1)
             /\ written' = IF ~d.sv.raised
                            THEN written \cup {<<"generated", n>>}
                            ELSE written
             /\ resp' = d.resp
    /\ UNCHANGED <<pc, blob_service_client, storage_account_name,
                   storage_connection_string, use_managed_identity,
                   localDirs, containers, initExc, procs, start>>

Next == SaveFile \/ GetFile \/ GetFilePath \/ DeleteFile \/ DownloadPdf

\* the operations on the constructed manager
Spec == Init /\ [][Next]_vars

NextInit == Construct

\* ------------------------------------------------------- concurrent calls
\* Two calls in flight at once (two workers, or two requests of one worker),
\* on different (folder, filename) pairs.  A call is cut where its code makes
\* a backend call: the remote attempt, then the local attempt, and for a
\* local write first open(path, 'wb'), which truncates, then write().
Procs == {1, 2}

\* the two folders of the two calls, up to exchanging the calls
FolderPairs == {<<"uploads", "generated">>, <<"uploads", "static">>,
                <<"generated", "static">>}

\* the calls a process can make: save_file, get_file or delete_file with its
\* arguments and the outcomes its backend calls will meet
CallsOn(f) ==
    [op : {"save"}, f : {f}, n : Names, b : Contents, net : Net, io : {"ok"}]
    \cup [op : {"get", "delete"}, f : {f}, n : Names, b : {None}, net : Net,
          io : IO]

\* what a call gave back to its caller
Result(e) == [raised |-> e.raised, out |-> e.out, ok |-> e.ok, loc |-> e.loc]

NoResult == [raised |-> FALSE, out |-> None, ok |-> FALSE, loc |-> NoLoc]

\* the call c run alone, as one piece, on the backends (files, blbs)
CallEffect(c, files, blbs) ==
    IF c.op = "save"
    THEN save_file(use_azure, files, localDirs, blbs, containers,
                   c.b, c.n, c.f, c.net)
    ELSE IF c.op = "get"
    THEN get_file(use_azure, files, localDirs, blbs, containers,
                  c.n, c.f, c.net, c.io)
    ELSE delete_file(use_azure, files, localDirs, blbs, containers,
                     c.n, c.f, c.net, c.io)

\* the calls c1 then c2 run one after the other from the backends st
SeqRun(st, c1, c2) ==
    LET e1 == CallEffect(c1, st.files, st.blobs)
        e2 == CallEffect(c2, e1.files, e1.blobs)
    IN  [files |-> e2.files, blobs |-> e2.blobs,
         r1 |-> Result(e1), r2 |-> Result(e2)]

\* A constructed manager (local mode, or remote mode with both containers)
\* and backends holding objects of earlier calls, with two calls entering.
InitConc ==
    /\ pc = "ready"
    /\ \E conn \in ConnValues, dirs0 \in SUBSET KnownBuckets :
         LET r == init(FALSE, "unset", conn, {"static"} \cup dirs0, {},
                       FALSE, {})
         IN  /\ storage_account_name = "unset"
             /\ storage_connection_string = conn
             /\ use_managed_identity = FALSE
             /\ use_azure = r.use_azure
             /\ blob_service_client = r.client
             /\ localDirs = r.dirs
             /\ containers = r.conts
             /\ initExc = r.exc
    /\ localFiles \in [Pairs -> {None, MaxContent}]
    /\ \A q \in Pairs : q[1] \notin localDirs => localFiles[q] = None
    /\ blobs \in [Pairs -> {None, MaxContent}]
    /\ \A q \in Pairs : q[1] \notin containers => blobs[q] = None
    /\ last = NoOp
    /\ written = {}
    /\ calls = 0
    /\ resp = NoResp
    /\ start = [files |-> localFiles, blobs |-> blobs]
    /\ \E fp \in FolderPairs :
       \E c1 \in CallsOn(fp[1]), c2 \in CallsOn(fp[2]) :
         procs = [i \in Procs |->
                    [call |-> IF i = 1 THEN c1 ELSE c2,
                     at |-> IF use_azure THEN "remote" ELSE "local",
                     res |-> NoResult]]

ConcFrame == UNCHANGED <<pc, use_azure, blob_service_client,
                         storage_account_name, storage_connection_string,
                         use_managed_identity, localDirs, containers,
                         last, written, initExc, calls, resp, start>>

\* process i is done with result r
Done(i, r) == procs' = [procs EXCEPT ![i].at = "done", ![i].res = r]

\* the remote attempt of a call (lines 98-105, 135-140, 191-197)
RemoteStep ==
    \E i \in Procs :
      LET c == procs[i].call IN
      /\ procs[i].at = "remote"
      /\ \/ /\ c.op = "save"
            /\ LET up == upload_blob(blobs, containers, c.b, c.n, c.f, c.net)
               IN  /\ blobs' = up.blobs
                   /\ IF up.raised
                      THEN procs' = [procs EXCEPT ![i].at = "local"]
                      ELSE Done(i, [NoResult EXCEPT !.loc = Url(c.f, c.n)])
         \/ /\ c.op = "get"
            /\ LET dl == download_blob(blobs, containers, c.n, c.f, c.net)
               IN  /\ blobs' = dl.blobs
                   /\ IF dl.raised
                      THEN procs' = [procs EXCEPT ![i].at = "local"]
                      ELSE Done(i, [NoResult EXCEPT !.out = dl.out])
         \/ /\ c.op = "delete"
            /\ LET del == delete_blob(blobs, containers, c.n, c.f, c.net)
               IN  /\ blobs' = del.blobs
                   /\ Done(i, [NoResult EXCEPT !.ok = ~del.raised])
      /\ UNCHANGED localFiles
      /\ ConcFrame

\* the local attempt of a call (lines 116-117, 150-156, 203-209); for a
\* save it is the open(), which raises or leaves the file empty
LocalStep ==
    \E i \in Procs :
      LET c == procs[i].call IN
      /\ procs[i].at = "local"
      /\ \/ /\ c.op = "save"
            /\ IF c.f \notin localDirs
               THEN /\ Done(i, [NoResult EXCEPT !.raised = TRUE])
                    /\ UNCHANGED localFiles
               ELSE /\ localFiles' = [localFiles EXCEPT ![<<c.f, c.n>>] = 0]
                    /\ procs' = [procs EXCEPT ![i].at = "write"]
         \/ /\ c.op = "get"
            /\ LET gl == get_local(localFiles, c.n, c.f, c.io)
               IN  Done(i, [NoResult EXCEPT !.raised = gl.raised,
                                            !.out = gl.out])
            /\ UNCHANGED localFiles
         \/ /\ c.op = "delete"
            /\ LET rm == remove_local(localFiles, c.n, c.f, c.io)
               IN  /\ localFiles' = rm.files
                   /\ Done(i, [NoResult EXCEPT !.ok = ~rm.raised])
      /\ UNCHANGED blobs
      /\ ConcFrame

\* f.write(file_content) and the return of the path (lines 118-120)
WriteStep ==
    \E i \in Procs :
      LET c == procs[i].call IN
      /\ procs[i].at = "write"
      /\ localFiles' = [localFiles EXCEPT ![<<c.f, c.n>>] = c.b]
      /\ Done(i, [NoResult EXCEPT !.loc = Path(c.f, c.n)])
      /\ UNCHANGED blobs
      /\ ConcFrame

NextConc == RemoteStep \/ LocalStep \/ WriteStep

\* two calls on different (folder, filename) pairs, interleaved
SpecConc == InitConc /\ [][NextConc]_vars

\* the construction of the manager
SpecInit == InitStart /\ [][NextInit]_vars

\* ------------------------------------------------------------ properties
\* what get_file(filename, folder) returns when it is the next call, for the
\* (folder, filename) of the last call and the remote outcome net, with the
\* local file readable
NextGet(net) ==
    get_file(use_azure, localFiles, localDirs, blobs, containers,
             last.n, last.f, net, "ok")

\* the same, one step later
NextGetAfter(net) ==
    get_file(use_azure', localFiles', localDirs', blobs', containers',
             last'.n, last'.f, net, "ok")

\* the step is a call made on the manager
IsCall == calls' = calls + 1

\* C1: after save_file(b, n, f) on a known folder returns, the next
\* get_file(n, f) returns exactly b, whichever backend served the save and
\* whatever either backend held before.
C1_RoundTrip ==
    (last.op = "save" /\ ~last.raised /\ last.f \in KnownBuckets)
        => \A net \in Net : ~NextGet(net).raised /\ NextGet(net).out = last.b

\* C2: after save_file(b1, n, f) then save_file(b2, n, f) with b1 # b2, the
\* next get_file(n, f) returns b2 and never b1.
C2_Overwrite ==
    (last.op = "save" /\ ~last.raised /\ last.over # None /\ last.over # last.b)
        => \A net \in Net : /\ NextGet(net).out = last.b
                            /\ NextGet(net).out # last.over

\* C3: in remote mode, when the upload raises, save_file does not raise: the
\* bytes are at the local path folder/filename, whose directory exists, the
\* local path is returned and a local read of it returns the bytes.
C3_FallbackTransparency ==
    (use_azure /\ last.op = "save" /\ last.rraised)
        => /\ ~last.raised
           /\ last.f \in localDirs
           /\ last.loc = Path(last.f, last.n)
           /\ get_local(localFiles, last.n, last.f, "ok").out = last.b

\* C4: get_file on a (folder, filename) that no save_file has written returns
\* None and does not raise, in local mode and in remote mode.
C4_NotFound ==
    (last.op = "get" /\ <<last.f, last.n>> \notin written)
        => ~last.raised /\ last.out = None

\* C4 witness: in remote mode, after some other object was written, a get_file
\* of a never-written object had its download raise and read locally.
C4_Witness ==
    /\ use_azure
    /\ written # {}
    /\ last.op = "get" /\ <<last.f, last.n>> \notin written
    /\ last.rraised /\ last.local = 1 /\ last.out = None

\* C5: in remote mode, a delete_file whose remote deletion raises returns
\* False, makes no local attempt, leaves both backends unchanged, and
\* get_file returns afterwards what it returned before.
C5_DeleteAsymmetry ==
    [][(IsCall /\ last'.op = "delete" /\ last'.rraised)
         => /\ ~last'.ok /\ ~last'.raised /\ last'.local = 0
            /\ localFiles' = localFiles /\ blobs' = blobs
            /\ \A net \in Net :
                 NextGetAfter(net).out
                   = get_file(use_azure, localFiles, localDirs, blobs,
                              containers, last'.n, last'.f, net, "ok").out]_vars

\* C5 witness: the remote deletion raised while the object was in both
\* backends, and both copies are still there.
C5_Witness ==
    /\ use_azure
    /\ last.op = "delete" /\ last.rraised /\ ~last.ok
    /\ localFiles[<<last.f, last.n>>] # None
    /\ blobs[<<last.f, last.n>>] # None

\* C6: save_file and get_file with a folder outside {uploads, generated}
\* raise, and no object is ever stored outside the two known buckets.
C6_UnknownBucketRejected ==
    /\ \A p \in Pairs :
         p[1] \notin KnownBuckets => localFiles[p] = None /\ blobs[p] = None
    /\ (last.op \in {"save", "get"} /\ last.f \notin KnownBuckets)
         => last.raised

\* C7: after delete_file(n, f) returns True, the next get_file(n, f) returns
\* None.
C7_DeleteRemoves ==
    (last.op = "delete" /\ last.ok)
        => \A net \in Net : NextGet(net).out = None

\* C8: when an exception occurred during client construction or container
\* setup, the constructed manager is in local mode and both local
\* directories exist.
C8_InitFallback ==
    (pc = "ready" /\ initExc # "none")
        => ~use_azure /\ KnownBuckets \subseteq localDirs

\* C9: use_azure only with a client; a client only with (managed identity and
\* account name) or a connection string, managed identity first; with no
\* credentials or an account name alone: local mode, no client, directories.
C9_BackendSelection ==
    pc = "ready" =>
        LET acct == Truthy(storage_account_name)
            conn == Truthy(storage_connection_string)
            mi == use_managed_identity
        IN  /\ use_azure => blob_service_client # "none"
            /\ blob_service_client # "none" => ((mi /\ acct) \/ conn)
            /\ (blob_service_client # "none" /\ mi /\ acct)
                 => blob_service_client = "mi"
            /\ ((~acct /\ ~conn) \/ (acct /\ ~mi /\ ~conn))
                 => /\ ~use_azure
                    /\ blob_service_client = "none"
                    /\ KnownBuckets \subseteq localDirs

\* C9 witness: managed identity, account name and connection string are all
\* set, and the manager is in remote mode with the managed-identity client.
C9_Witness ==
    /\ pc = "ready"
    /\ use_managed_identity
    /\ Truthy(storage_account_name) /\ Truthy(storage_connection_string)
    /\ use_azure /\ blob_service_client = "mi"

\* C10: no call changes use_azure, and every save_file, get_file and
\* delete_file attempts the remote backend exactly when use_azure is set,
\* also right after a call whose remote attempt raised.
C10_FlagFrozen ==
    [][/\ use_azure' = use_azure
       /\ (IsCall /\ last'.op \in {"save", "get", "delete"})
            => last'.remote = (IF use_azure THEN 1 ELSE 0)]_vars

\* C10 witness: right after a call whose remote attempt raised, a call
\* attempted the remote backend and was served by it.
C10_Witness ==
    /\ use_azure
    /\ last.op \in {"save", "get", "delete"}
    /\ last.prevFailed /\ last.remote = 1 /\ ~last.rraised

\* C11: in local mode delete_file never raises and leaves the blobs alone;
\* it returns True exactly when the file existed and is removed by the call,
\* and when it returns False (file missing, or the removal failed) no stored
\* object changed.
C11_LocalDelete ==
    [][(IsCall /\ ~use_azure /\ last'.op = "delete")
         => LET p == <<last'.f, last'.n>>
            IN  /\ ~last'.raised
                /\ blobs' = blobs
                /\ last'.ok => /\ localFiles[p] # None
                               /\ localFiles' = [localFiles EXCEPT ![p] = None]
                /\ ~last'.ok => localFiles' = localFiles
                /\ (localFiles[p] # None /\ last'.io = "ok") => last'.ok]_vars

\* C11 witness: in local mode the removal of an existing file failed,
\* delete_file returned False and the file is still there.
C11_Witness ==
    /\ ~use_azure
    /\ last.op = "delete" /\ last.io = "denied" /\ ~last.ok /\ ~last.raised
    /\ localFiles[<<last.f, last.n>>] # None

\* C12: a get_file whose local read of an existing file fails with an I/O
\* error other than a missing file returns None and does not raise, in local
\* mode and in the local fallback of remote mode.
C12_ReadErrorAbsent ==
    (/\ last.op = "get" /\ last.local = 1 /\ last.io = "denied"
     /\ localFiles[<<last.f, last.n>>] # None)
        => ~last.raised /\ last.out = None

\* C13: get_file_path changes neither backend nor the manager, attempts no
\* I/O, returns the blob URL in remote mode and the local path otherwise,
\* whatever is stored under (folder, filename); in local mode it returns the
\* locator a save_file of the same (folder, filename) returns.
C13_PathPure ==
    [][(IsCall /\ last'.op = "path")
         => LET f == last'.f
                n == last'.n
            IN  /\ UNCHANGED <<use_azure, blob_service_client, localDirs,
                               localFiles, containers, blobs>>
                /\ ~last'.raised /\ last'.remote = 0 /\ last'.local = 0
                /\ last'.loc = IF use_azure THEN Url(f, n) ELSE Path(f, n)
                /\ \A v \in Contents \cup {None} :
                     get_file_path(use_azure,
                                   [localFiles EXCEPT ![<<f, n>>] = v],
                                   localDirs, [blobs EXCEPT ![<<f, n>>] = v],
                                   containers, n, f).loc = last'.loc
                /\ ~use_azure =>
                     \A b \in Contents, net \in Net :
                       LET sv == save_file(use_azure, localFiles, localDirs,
                                           blobs, containers, b, n, f, net)
                       IN  ~sv.raised => sv.loc = last'.loc]_vars

\* C13 witness: in remote mode get_file_path returned the URL of an object
\* that is in neither backend.
C13_Witness ==
    /\ use_azure
    /\ last.op = "path" /\ last.loc = Url(last.f, last.n)
    /\ last.f \in KnownBuckets
    /\ blobs[<<last.f, last.n>>] = None
    /\ localFiles[<<last.f, last.n>>] = None

\* C14: once the manager is constructed, the local uploads and generated
\* directories exist.
C14_LocalDirsExist ==
    pc = "ready" => KnownBuckets \subseteq localDirs

\* C16: a save_file or get_file makes one remote attempt in remote mode and
\* none in local mode, and one local attempt exactly when it is in local mode
\* or its remote attempt raised; never more than one of either.
C16_BoundedAttempts ==
    last.op \in {"save", "get"}
        => /\ last.remote = (IF use_azure THEN 1 ELSE 0)
           /\ last.local = (IF ~use_azure \/ last.rraised THEN 1 ELSE 0)
           /\ last.rraised => last.remote = 1

\* C16 witness: a save_file in remote mode whose upload raised made one remote
\* and one local attempt and returned the local path.
C16_Witness ==
    /\ use_azure
    /\ last.op = "save" /\ last.rraised /\ ~last.raised
    /\ last.remote = 1 /\ last.local = 1
    /\ last.loc = Path(last.f, last.n)

\* C17: a download_pdf that succeeds in remote mode answers with the blob URL
\* of the PDF it saved, and its content check read the object from the remote
\* backend, also when the upload failed and save_file fell back.
C17_DownloadUrlRemote ==
    (use_azure /\ resp.status = 200)
        => /\ resp.kind = "json"
           /\ resp.download_url = Url("generated", last.n)
           /\ resp.checked = "remote"

\* the (folder, filename) of the call of process i
PairOf(i) == <<procs[i].call.f, procs[i].call.n>>

AllDone == \A i \in Procs : procs[i].at = "done"

\* C15: with two calls on different (folder, filename) pairs in flight, no
\* object of a third pair ever changes; a save_file changes nothing before it
\* writes, and once it returned exactly one object changed: the blob holds its
\* bytes when it returned the URL and the local file when it returned the
\* path, the other backend's copy being as before; a save_file that raised
\* changed nothing.  When both calls are over, both backends and both results
\* are those of running the calls one after the other, in either order.
C15_SaveFrameIndependence ==
    /\ \A q \in Pairs \ {PairOf(i) : i \in Procs} :
         localFiles[q] = start.files[q] /\ blobs[q] = start.blobs[q]
    /\ \A i \in Procs :
         LET c == procs[i].call
             q == PairOf(i)
             r == procs[i].res
         IN  c.op = "save" =>
               /\ procs[i].at \in {"remote", "local"}
                    => /\ localFiles[q] = start.files[q]
                       /\ blobs[q] = start.blobs[q]
               /\ procs[i].at = "write" => blobs[q] = start.blobs[q]
               /\ (procs[i].at = "done" /\ r.raised)
                    => /\ localFiles[q] = start.files[q]
                       /\ blobs[q] = start.blobs[q]
               /\ (procs[i].at = "done" /\ r.loc.kind = "url")
                    => blobs[q] = c.b /\ localFiles[q] = start.files[q]
               /\ (procs[i].at = "done" /\ r.loc.kind = "path")
                    => localFiles[q] = c.b /\ blobs[q] = start.blobs[q]
    /\ AllDone =>
         LET s12 == SeqRun(start, procs[1].call, procs[2].call)
             s21 == SeqRun(start, procs[2].call, procs[1].call)
         IN  /\ localFiles = s12.files /\ blobs = s12.blobs
             /\ procs[1].res = s12.r1 /\ procs[2].res = s12.r2
             /\ localFiles = s21.files /\ blobs = s21.blobs
             /\ procs[1].res = s21.r2 /\ procs[2].res = s21.r1

\* C15 witness: in remote mode a save_file whose upload raised wrote its bytes
\* over an existing local file while a delete_file removed the blob of another
\* pair; the first pair's blob, the second pair's local file and a third
\* pair's objects are as they were.
C15_Witness ==
    /\ AllDone
    /\ use_azure
    /\ procs[1].call.op = "save" /\ procs[1].res.loc.kind = "path"
    /\ procs[1].call.b # MaxContent
    /\ start.files[PairOf(1)] # None /\ start.blobs[PairOf(1)] # None
    /\ procs[2].call.op = "delete" /\ procs[2].res.ok
    /\ start.files[PairOf(2)] # None
    /\ \E q \in Pairs \ {PairOf(1), PairOf(2)} : start.files[q] # None

====
